---- MODULE Spec2Model ----
(***************************************************************************)
(* The live conversation pipeline of AudioConverseStudio (src/App.tsx,     *)
(* lines 562-686) with the audio helpers of src/utils/fileUtils.ts.        *)
(*                                                                         *)
(* Every invocation of handleStartConversation gets an identifier s; the   *)
(* audio contexts, the microphone stream, the channel, the capture nodes   *)
(* and the closure variables that invocation creates carry the same s.     *)
(* A ref holds 0 (null) or such an identifier.  Time is counted in output  *)
(* sample frames (1/24000 s), so that AudioBuffer.duration is an integer.  *)
(***************************************************************************)
EXTENDS Integers, Sequences, FiniteSets, TLC

\* ---------------------------------------------------------------- bounds
MaxStarts == 2
MaxBlocks == 1
MaxTicks == 2
PlaybackMsgs == 2
CaptureBlocks == 3
CaptureMsgs == 1
TranscriptMsgs == 3
DuplexBlocks == 2
DuplexMsgs == 2
SessionMsgs == 2
MaxId == 2
MaxEntries == 2

\* ------------------------------------------------------ program constants
BufferSize == 4096
InputSampleRate == 16000
OutputSampleRate == 24000
BytesPerElement == 2
NumChannels == 1

Starts == 1..MaxStarts
NoRef == 0

Max(a, b) == IF a >= b THEN a ELSE b

VARIABLES
    \* React state of the component
    isSessionActive, error, transcriptions,
    \* the six refs
    sessionRef, streamRef, inputAudioContextRef, outputAudioContextRef,
    scriptProcessorRef, sourceRef,
    \* per invocation of handleStartConversation: its position and closure
    pc, nextStartTime, currentInputTranscription, currentOutputTranscription,
    sessionPromise, thenQueue, awaiting,
    \* the objects the browser and the SDK own
    chan, nodeCtx, connected, currentTime,
    \* what has been observed so far
    releases, sent, captured, scheduled, inbox, emitted, lastStart, callLog,
    sentWhile,
    \* services/historyService: the persisted store, the last value returned
    \* by getHistoryForImage and the last call made
    historyStore, returned, lastOp

compVars == <<isSessionActive, error, transcriptions>>
refVars == <<sessionRef, streamRef, inputAudioContextRef, outputAudioContextRef,
             scriptProcessorRef, sourceRef>>
closureVars == <<pc, nextStartTime, currentInputTranscription,
                 currentOutputTranscription, sessionPromise, thenQueue, awaiting>>
envVars == <<chan, nodeCtx, connected, currentTime>>
obsVars == <<releases, sent, captured, scheduled, inbox, emitted, lastStart,
            callLog, sentWhile>>
historyVars == <<historyStore, returned, lastOp>>
sessionVars == <<compVars, refVars, closureVars, envVars, obsVars>>
vars == <<sessionVars, historyVars>>

ReleaseKinds == {"session.close", "track.stop", "processor.disconnect",
                 "source.disconnect", "inputContext.close", "outputContext.close"}

Init ==
    /\ isSessionActive = FALSE
    /\ error = "null"
    /\ transcriptions = <<>>
    /\ sessionRef = NoRef
    /\ streamRef = NoRef
    /\ inputAudioContextRef = NoRef
    /\ outputAudioContextRef = NoRef
    /\ scriptProcessorRef = NoRef
    /\ sourceRef = NoRef
    /\ pc = [s \in Starts |-> "idle"]
    /\ nextStartTime = [s \in Starts |-> 0]
    /\ currentInputTranscription = [s \in Starts |-> <<>>]
    /\ currentOutputTranscription = [s \in Starts |-> <<>>]
    /\ sessionPromise = [s \in Starts |-> "none"]
    /\ thenQueue = [s \in Starts |-> <<>>]
    /\ awaiting = [s \in Starts |-> <<>>]
    /\ chan = [s \in Starts |-> "none"]
    /\ nodeCtx = [s \in Starts |-> NoRef]
    /\ connected = [s \in Starts |-> FALSE]
    /\ currentTime = [s \in Starts |-> 0]
    /\ releases = [k \in ReleaseKinds |-> [s \in Starts |-> 0]]
    /\ sent = [s \in Starts |-> <<>>]
    /\ captured = [s \in Starts |-> 0]
    /\ scheduled = [s \in Starts |-> <<>>]
    /\ inbox = [s \in Starts |-> <<>>]
    /\ emitted = <<>>
    /\ lastStart = "none"
    /\ callLog = <<>>
    /\ sentWhile = [s \in Starts |-> {}]
    /\ historyStore = <<>>
    /\ returned = <<>>
    /\ lastOp = [op |-> "none", name |-> "none"]

\* ------------------------------------------------------- fileUtils.ts
\* A base64 string, by what decides its decoding: whether atob accepts it,
\* its length and its count of '=' padding characters.
\* encode (lines 100-107): btoa of a binary string of n bytes.
Encode(n) ==
    [valid |-> TRUE, chars |-> 4 * ((n + 2) \div 3), padding |-> (3 - (n % 3)) % 3]

\* decode (lines 90-98): the number of bytes atob yields.
Decode(b64) == 3 * (b64.chars \div 4) - b64.padding

\* decodeAudioData (lines 109-126): frameCount of the buffer it creates.
FrameCount(bytes) == (bytes \div BytesPerElement) \div NumChannels

\* AudioBuffer.duration, in frames of the buffer's own sample rate.
Duration(bytes) == FrameCount(bytes)

\* new Int16Array(data.buffer) throws a RangeError on an odd byte length.
DecodeAudioDataThrows(bytes) == bytes % BytesPerElement # 0

NoFrame == [data |-> Encode(0), mimeType |-> "none", sample |-> 0, pcm |-> 0, block |-> 0,
            deferred |-> FALSE]

\* ------------------------------------------------------------ stopSession
\* AudioContext.state of context c: only stopSession closes a context.
InputContextState(c) ==
    IF releases["inputContext.close"][c] > 0 THEN "closed" ELSE "running"

OutputContextState(c) ==
    IF releases["outputContext.close"][c] > 0 THEN "closed" ELSE "running"

\* A teardown that closes the session and stops the tracks but leaves the
\* audio graph and the contexts alone.
StopReleasesChannelOnly(k, i) ==
    CASE k = "session.close" -> sessionRef # NoRef /\ i = sessionRef
      [] k = "track.stop" -> streamRef # NoRef /\ i = streamRef
      [] OTHER -> FALSE

\* The release call of kind k that stopSession makes on object i (lines 575-598).
StopReleases(k, i) ==
    CASE k = "session.close" -> sessionRef # NoRef /\ i = sessionRef
      [] k = "track.stop" -> streamRef # NoRef /\ i = streamRef
      [] k = "processor.disconnect" -> scriptProcessorRef # NoRef /\ i = scriptProcessorRef
      [] k = "source.disconnect" -> sourceRef # NoRef /\ i = sourceRef
      [] k = "inputContext.close" ->
            /\ inputAudioContextRef # NoRef
            /\ i = inputAudioContextRef
            /\ InputContextState(i) # "closed"
      [] k = "outputContext.close" ->
            /\ outputAudioContextRef # NoRef
            /\ i = outputAudioContextRef
            /\ OutputContextState(i) # "closed"

\* session.close() on an open channel starts its closing handshake.
ChanAfterStop ==
    IF sessionRef # NoRef /\ chan[sessionRef] = "open"
    THEN [chan EXCEPT ![sessionRef] = "closing"]
    ELSE chan

\* stopSession (lines 574-604), except for the channel object's own state.
StopSession ==
    /\ releases' = [k \in ReleaseKinds |-> [i \in Starts |->
                       releases[k][i] + (IF StopReleases(k, i) THEN 1 ELSE 0)]]
    /\ connected' = [p \in Starts |->
                       connected[p] /\ ~StopReleases("processor.disconnect", p)]
    /\ sessionRef' = NoRef
    /\ streamRef' = NoRef
    /\ scriptProcessorRef' = NoRef
    /\ sourceRef' = NoRef
    /\ inputAudioContextRef' = NoRef
    /\ outputAudioContextRef' = NoRef
    /\ isSessionActive' = FALSE

\* A teardown that disconnects the graph first and clears the session handle
\* just before the flag.
StopOrderGraphFirst ==
    << "processor.disconnect", "source.disconnect", "track.stop",
       "outputContext.close", "inputContext.close", "session.close",
       "sessionRef = null", "setIsSessionActive(false)" >>

\* The statements of stopSession that call out or publish state, in the order
\* of lines 576, 577, 580, 584, 588, 594, 597 and 603.
StopOrder ==
    << "session.close", "sessionRef = null", "track.stop", "processor.disconnect",
       "source.disconnect", "inputContext.close", "outputContext.close",
       "setIsSessionActive(false)" >>

\* Whether stopSession, run in the current state, executes statement c.
StopExecutes(c) ==
    CASE c = "setIsSessionActive(false)" -> TRUE
      [] c = "sessionRef = null" -> sessionRef # NoRef
      [] OTHER -> \E i \in Starts : StopReleases(c, i)

\* A teardown that closes the contexts before it touches the stream and
\* the graph.
StopCallsContextsFirst ==
    SelectSeq(<< "session.close", "sessionRef = null", "inputContext.close",
                 "outputContext.close", "track.stop", "processor.disconnect",
                 "source.disconnect", "setIsSessionActive(false)" >>, StopExecutes)

\* The calls one run of stopSession makes, in order.
StopCalls == SelectSeq(StopOrder, StopExecutes)

\* ------------------------------------------------- handleStartConversation
\* The next unused invocation identifier.
Fresh(s) == pc[s] = "idle" /\ \A t \in Starts : t < s => pc[t] # "idle"

\* Lines 606-623: up to the await on getUserMedia.
HandleStartConversation(s) ==
    /\ Fresh(s)
    /\ IF isSessionActive
       THEN /\ lastStart' = "returned"
            /\ UNCHANGED <<compVars, refVars, closureVars, envVars, releases, sent,
                           captured, scheduled, inbox, emitted, callLog, sentWhile,
                           historyVars>>
       ELSE /\ isSessionActive' = TRUE
            /\ error' = "null"
            /\ transcriptions' = <<>>
            /\ nextStartTime' = [nextStartTime EXCEPT ![s] = 0]
            /\ currentInputTranscription' = [currentInputTranscription EXCEPT ![s] = <<>>]
            /\ currentOutputTranscription' = [currentOutputTranscription EXCEPT ![s] = <<>>]
            /\ inputAudioContextRef' = s
            /\ outputAudioContextRef' = s
            /\ pc' = [pc EXCEPT ![s] = "getUserMedia"]
            /\ lastStart' = "started"
            /\ UNCHANGED <<sessionRef, streamRef, scriptProcessorRef, sourceRef,
                           sessionPromise, thenQueue, awaiting, envVars, releases,
                           sent, captured, scheduled, inbox, emitted, callLog,
                           sentWhile, historyVars>>

\* The button of line 692 offers start only while isSessionActive is false.
ClickStart(s) ==
    /\ ~isSessionActive
    /\ HandleStartConversation(s)

\* handleStartConversation entered while a session is active (line 607).
StartWhileActive(s) ==
    /\ isSessionActive
    /\ HandleStartConversation(s)

\* Lines 623-680: getUserMedia resolves, ai.live.connect is called and the
\* handler that stores the session is registered on the promise.
GetUserMediaResolved(s) ==
    /\ pc[s] = "getUserMedia"
    /\ streamRef' = s
    /\ chan' = [chan EXCEPT ![s] = "connecting"]
    /\ sessionPromise' = [sessionPromise EXCEPT ![s] = "pending"]
    /\ thenQueue' = [thenQueue EXCEPT ![s] = <<[op |-> "storeSession", frame |-> NoFrame]>>]
    /\ pc' = [pc EXCEPT ![s] = "returned"]
    /\ UNCHANGED <<compVars, sessionRef, inputAudioContextRef, outputAudioContextRef,
                   scriptProcessorRef, sourceRef, nextStartTime,
                   currentInputTranscription, currentOutputTranscription, awaiting,
                   nodeCtx, connected, currentTime, obsVars, historyVars>>

\* A catch block that reports the failure and tears nothing down.
GetUserMediaRejectedReportOnly(s) ==
    /\ pc[s] = "getUserMedia"
    /\ error' = "Failed to start conversation"
    /\ callLog' = <<"setError">>
    /\ pc' = [pc EXCEPT ![s] = "returned"]
    /\ UNCHANGED <<isSessionActive, transcriptions, refVars, nextStartTime,
                   currentInputTranscription, currentOutputTranscription,
                   sessionPromise, thenQueue, awaiting, envVars, releases, sent,
                   captured, scheduled, inbox, emitted, lastStart, sentWhile,
                   historyVars>>

\* Lines 623, 682-685: getUserMedia rejects and the catch block runs.
GetUserMediaRejected(s) ==
    /\ pc[s] = "getUserMedia"
    /\ error' = "Failed to start conversation"
    /\ StopSession
    /\ callLog' = <<"setError">> \o StopCalls
    /\ chan' = ChanAfterStop
    /\ pc' = [pc EXCEPT ![s] = "returned"]
    /\ UNCHANGED <<transcriptions, nextStartTime, currentInputTranscription,
                   currentOutputTranscription, sessionPromise, thenQueue, awaiting,
                   nodeCtx, currentTime, sent, captured, scheduled, inbox,
                   emitted, lastStart, sentWhile, historyVars>>

\* A stop that finalizes the turn in progress of the session in sessionRef.
ClickStopEmitsPartial ==
    /\ isSessionActive
    /\ StopSession
    /\ callLog' = StopCalls
    /\ chan' = ChanAfterStop
    /\ transcriptions' =
          IF sessionRef = NoRef THEN transcriptions
          ELSE Append(transcriptions,
                      [user |-> currentInputTranscription[sessionRef],
                       model |-> currentOutputTranscription[sessionRef]])
    /\ UNCHANGED <<error, closureVars, nodeCtx, currentTime, sent,
                   captured, scheduled, inbox, emitted, lastStart, sentWhile,
                   historyVars>>

\* The stop button of line 692.
ClickStop ==
    /\ isSessionActive
    /\ StopSession
    /\ callLog' = StopCalls
    /\ chan' = ChanAfterStop
    /\ UNCHANGED <<error, transcriptions, closureVars, nodeCtx, currentTime, sent,
                   captured, scheduled, inbox, emitted, lastStart, sentWhile,
                   historyVars>>

\* ------------------------------------------------------------- callbacks
\* onopen (lines 628-643).  createMediaStreamSource on a null context or a
\* null stream throws a TypeError before anything is assigned.
OnOpen(s) ==
    /\ chan[s] = "connecting"
    /\ chan' = [chan EXCEPT ![s] = "open"]
    /\ IF inputAudioContextRef = NoRef \/ streamRef = NoRef
       THEN UNCHANGED <<sourceRef, scriptProcessorRef, nodeCtx, connected>>
       ELSE /\ sourceRef' = s
            /\ scriptProcessorRef' = s
            /\ nodeCtx' = [nodeCtx EXCEPT ![s] = inputAudioContextRef]
            /\ connected' = [connected EXCEPT ![s] = TRUE]
    /\ UNCHANGED <<compVars, sessionRef, streamRef, inputAudioContextRef,
                   outputAudioContextRef, closureVars, currentTime, obsVars,
                   historyVars>>

\* A deferral that keeps only the latest block.
QueuedFramesLatestOnly(q) ==
    IF q # <<>> /\ q[Len(q)].op = "send" THEN <<q[Len(q)].frame>> ELSE <<>>

\* The frames of the send handlers queued on the promise, in order.
RECURSIVE QueuedFrames(_)
QueuedFrames(q) ==
    IF q = <<>> THEN <<>>
    ELSE IF Head(q).op = "send" THEN <<Head(q).frame>> \o QueuedFrames(Tail(q))
    ELSE QueuedFrames(Tail(q))

\* The connect promise resolves: the handlers registered on it run in the
\* order of registration (line 680 first, then the sends of line 637).
ConnectResolved(s) ==
    /\ chan[s] = "open"
    /\ sessionPromise[s] = "pending"
    /\ sessionPromise' = [sessionPromise EXCEPT ![s] = "resolved"]
    /\ sessionRef' = s
    /\ sent' = [sent EXCEPT ![s] = sent[s] \o QueuedFrames(thenQueue[s])]
    /\ sentWhile' = [sentWhile EXCEPT ![s] =
           IF QueuedFrames(thenQueue[s]) = <<>> THEN sentWhile[s]
           ELSE sentWhile[s] \cup {chan[s]}]
    /\ thenQueue' = [thenQueue EXCEPT ![s] = <<>>]
    /\ UNCHANGED <<compVars, streamRef, inputAudioContextRef, outputAudioContextRef,
                   scriptProcessorRef, sourceRef, pc, nextStartTime,
                   currentInputTranscription, currentOutputTranscription, awaiting,
                   envVars, releases, captured, scheduled, inbox, emitted,
                   lastStart, callLog, historyVars>>

\* The connect promise rejects: nothing awaits it (line 625 has no await and
\* line 680 registers no rejection handler), so no code of the component runs.
ConnectRejected(s) ==
    /\ chan[s] = "connecting"
    /\ sessionPromise[s] = "pending"
    /\ sessionPromise' = [sessionPromise EXCEPT ![s] = "rejected"]
    /\ thenQueue' = [thenQueue EXCEPT ![s] = <<>>]
    /\ chan' = [chan EXCEPT ![s] = "failed"]
    /\ UNCHANGED <<compVars, refVars, pc, nextStartTime, currentInputTranscription,
                   currentOutputTranscription, awaiting, nodeCtx, connected,
                   currentTime, obsVars, historyVars>>

\* The ErrorEvents the transport hands to onerror, by their message: a
\* plain socket error event carries none.
ErrorEvents == {"", "socket failure"}

\* The text of line 670 for an event with message e.
SessionErrorText(e) ==
    IF e = ""
    THEN "An error occurred during the session: Please check your connection."
    ELSE "An error occurred during the session: socket failure"

\* An onerror that reports the error and does not call stopSession.
OnErrorReportOnly(s) ==
    /\ chan[s] \in {"connecting", "open"}
    /\ \E e \in ErrorEvents : error' = SessionErrorText(e)
    /\ callLog' = <<"setError">>
    /\ chan' = [chan EXCEPT ![s] = "closing"]
    /\ UNCHANGED <<isSessionActive, transcriptions, refVars, closureVars, nodeCtx,
                   connected, currentTime, releases, sent, captured, scheduled,
                   inbox, emitted, lastStart, sentWhile, historyVars>>

\* onerror (line 670).
OnError(s) ==
    /\ chan[s] \in {"connecting", "open"}
    /\ \E e \in ErrorEvents : error' = SessionErrorText(e)
    /\ StopSession
    /\ callLog' = <<"setError">> \o StopCalls
    /\ chan' = [ChanAfterStop EXCEPT ![s] = "closing"]
    /\ UNCHANGED <<transcriptions, closureVars, nodeCtx, currentTime, sent, captured,
                   scheduled, inbox, emitted, lastStart, sentWhile, historyVars>>

\* onclose (line 671).
OnClose(s) ==
    /\ chan[s] \in {"open", "closing"}
    /\ StopSession
    /\ callLog' = StopCalls
    /\ chan' = [ChanAfterStop EXCEPT ![s] = "closed"]
    /\ UNCHANGED <<error, transcriptions, closureVars, nodeCtx, currentTime, sent,
                   captured, scheduled, inbox, emitted, lastStart, sentWhile,
                   historyVars>>

\* A sample of the input block, as x * 65536 for x in [-1, 1]: -1.0, a
\* value just above zero, 0.5 and +1.0.
Samples == {-65536, 3, 32768, 65536}

\* x * 32768 (line 634), truncated toward zero as the conversion to an
\* integer type does.
ScaleTruncate(x) == IF x >= 0 THEN x \div 2 ELSE -((-x) \div 2)

\* The element conversion of new Int16Array(typedArray): modulo 2^16.
ToInt16(v) == ((v + 32768) % 65536) - 32768

\* Line 634: the 16-bit value a sample is encoded to.
ToPcm16(x) == ToInt16(ScaleTruncate(x))

\* Lines 632-636 with one byte per sample instead of an Int16Array.
PcmBlobOneByte(n) ==
    [data |-> Encode(n), mimeType |-> "audio/pcm;rate=16000"]

\* The pcmBlob of lines 632-636 for a block of n samples.
PcmBlob(n) ==
    [data |-> Encode(n * BytesPerElement), mimeType |-> "audio/pcm;rate=16000"]

\* The frame of the n-th block of a processor, BufferSize samples of value x;
\* d tells whether its send had to wait for the connect promise.
Frame(x, n, d) ==
    [data |-> PcmBlob(BufferSize).data, mimeType |-> PcmBlob(BufferSize).mimeType,
     sample |-> x, pcm |-> ToPcm16(x), block |-> n, deferred |-> d]

\* onaudioprocess (lines 631-640) of the processor node created by onopen of
\* s: it fires while the node is connected in a running context.
OnAudioProcess(p) ==
    /\ connected[p]
    /\ InputContextState(nodeCtx[p]) = "running"
    /\ captured' = [captured EXCEPT ![p] = captured[p] + 1]
    /\ \E x \in Samples :
          CASE sessionPromise[p] = "resolved" ->
                /\ sent' = [sent EXCEPT ![p] = 
                       Append(sent[p], Frame(x, captured[p] + 1, FALSE))]
                /\ sentWhile' = [sentWhile EXCEPT ![p] = sentWhile[p] \cup {chan[p]}]
                /\ UNCHANGED thenQueue
            [] sessionPromise[p] = "pending" ->
                /\ thenQueue' = [thenQueue EXCEPT ![p] =
                       Append(thenQueue[p], [op |-> "send",
                                              frame |-> Frame(x, captured[p] + 1, TRUE)])]
                /\ UNCHANGED <<sent, sentWhile>>
            [] OTHER -> UNCHANGED <<sent, sentWhile, thenQueue>>
    /\ UNCHANGED <<compVars, refVars, pc, nextStartTime, currentInputTranscription,
                   currentOutputTranscription, sessionPromise, awaiting, envVars,
                   releases, scheduled, inbox, emitted, lastStart, callLog,
                   historyVars>>

\* --------------------------------------------------------------- onmessage
Concat(a, b) == a \o b
\* Line 646 with = in place of +=.
InputOverwritten(s, m) ==
    IF m.inputTranscription # <<>>
    THEN m.inputTranscription[1]
    ELSE currentInputTranscription[s]

\* The first synchronous part of onmessage (lines 645-657): the transcript
\* accumulators after the deltas of m, and the turn that m completes.
InputAfterDelta(s, m) ==
    IF m.inputTranscription # <<>>
    THEN Concat(currentInputTranscription[s], m.inputTranscription[1])
    ELSE currentInputTranscription[s]

\* An onmessage that skips lines 648-649.
OutputDeltaIgnored(s, m) == currentOutputTranscription[s]

OutputAfterDelta(s, m) ==
    IF m.outputTranscription # <<>>
    THEN Concat(currentOutputTranscription[s], m.outputTranscription[1])
    ELSE currentOutputTranscription[s]

\* The text of an optional transcription field.
TextOf(delta) == IF delta = <<>> THEN <<>> ELSE delta[1]

\* Lines 655-656 left out: the accumulators keep their text.
AccumulatorKept(s, m) ==
    IF m.inputTranscription # <<>>
    THEN Concat(currentInputTranscription[s], m.inputTranscription[1])
    ELSE currentInputTranscription[s]

\* Lines 655-656: both accumulators after the turn has been emitted.
AccumulatorAfterTurn(s, m) == <<>>

\* A record taken from the accumulators as they were before the deltas of
\* the completing message.
TurnRecordBeforeDelta(s, m) ==
    [user |-> currentInputTranscription[s], model |-> currentOutputTranscription[s]]

\* Lines 651-653: the record emitted for the turn that m completes.
TurnRecord(s, m) == [user |-> InputAfterDelta(s, m), model |-> OutputAfterDelta(s, m)]

\* Line 660: a non-empty base64 string and a non-null output context.
HasAudio(m) ==
    /\ m.audio # <<>>
    /\ m.audio[1].data.chars > 0
    /\ outputAudioContextRef # NoRef
\* Line 661 without Math.max: the cursor is set to the clock.
CursorAtEntryClockOnly(s) == currentTime[outputAudioContextRef]

\* Line 661.
CursorAtEntry(s) == Max(nextStartTime[s], currentTime[outputAudioContextRef])

\* Line 662: atob rejects the string, or Int16Array rejects the byte length.
DecodeFails(m) ==
    \/ ~m.audio[1].data.valid
    \/ DecodeAudioDataThrows(Decode(m.audio[1].data))

\* onmessage from its entry to the await of line 662 (or to its end when
\* the message carries no audio or decoding throws).
OnMessage(s, m) ==
    /\ chan[s] = "open"
    /\ inbox' = [inbox EXCEPT ![s] = Append(inbox[s], m)]
    /\ IF m.turnComplete
       THEN /\ transcriptions' = Append(transcriptions, TurnRecord(s, m))
            /\ emitted' = Append(emitted, [session |-> s, at |-> Len(inbox[s]) + 1,
                                           record |-> TurnRecord(s, m)])
            /\ currentInputTranscription' =
                  [currentInputTranscription EXCEPT ![s] = AccumulatorAfterTurn(s, m)]
            /\ currentOutputTranscription' =
                  [currentOutputTranscription EXCEPT ![s] = AccumulatorAfterTurn(s, m)]
       ELSE /\ currentInputTranscription' =
                  [currentInputTranscription EXCEPT ![s] = InputAfterDelta(s, m)]
            /\ currentOutputTranscription' =
                  [currentOutputTranscription EXCEPT ![s] = OutputAfterDelta(s, m)]
            /\ UNCHANGED <<transcriptions, emitted>>
    /\ IF HasAudio(m)
       THEN /\ nextStartTime' = [nextStartTime EXCEPT ![s] = CursorAtEntry(s)]
            /\ IF DecodeFails(m)
               THEN UNCHANGED awaiting
               ELSE awaiting' = [awaiting EXCEPT ![s] = Append(awaiting[s],
                        [duration |-> Duration(Decode(m.audio[1].data)),
                         mimeType |-> m.audio[1].mimeType,
                         at |-> Len(inbox[s]) + 1,
                         entryCursor |-> CursorAtEntry(s),
                         clockRead |-> currentTime[outputAudioContextRef]])]
       ELSE UNCHANGED <<nextStartTime, awaiting>>
    /\ UNCHANGED <<isSessionActive, error, refVars, pc, sessionPromise, thenQueue,
                   envVars, releases, sent, captured, scheduled, lastStart, callLog,
                   sentWhile, historyVars>>
\* A continuation order in which the handler suspended last resumes first.
ResumedNewestFirst(s) == awaiting[s][Len(awaiting[s])]

\* Line 662: of the handlers of s suspended at the await, the one that
\* resumes next is the one that suspended first.
Resumed(s) == Head(awaiting[s])

\* Line 666 with the start time taken before the await instead of after it.
StartTimeBeforeAwait(s) == Head(awaiting[s]).entryCursor

\* Line 666: the time handed to source.start.
StartTime(s) == nextStartTime[s]
\* Line 667 without the addition of the duration.
CursorNotAdvanced(s, duration) == nextStartTime[s]

\* Line 667.
CursorAfter(s, duration) == nextStartTime[s] + duration

\* A continuation that schedules its buffer whatever the output context
\* ref holds by then.
OnMessageResumedUnchecked(s) ==
    /\ awaiting[s] # <<>>
    /\ awaiting' = [awaiting EXCEPT ![s] = Tail(awaiting[s])]
    /\ nextStartTime' = [nextStartTime EXCEPT ![s] =
           CursorAfter(s, Resumed(s).duration)]
    /\ scheduled' = [scheduled EXCEPT ![s] = Append(scheduled[s],
           [start |-> StartTime(s),
            duration |-> Resumed(s).duration,
            mimeType |-> Resumed(s).mimeType,
            at |-> Resumed(s).at,
            ctx |-> outputAudioContextRef,
            entryCursor |-> Resumed(s).entryCursor,
            cursorBefore |-> nextStartTime[s],
            cursorAfter |-> nextStartTime'[s],
            clockRead |-> Resumed(s).clockRead,
            clockNow |-> Resumed(s).clockRead])]
    /\ UNCHANGED <<compVars, refVars, pc, currentInputTranscription,
                   currentOutputTranscription, sessionPromise, thenQueue, envVars,
                   releases, sent, captured, inbox, emitted, lastStart, callLog,
                   sentWhile, historyVars>>

\* onmessage after the await (lines 663-667).  createBufferSource on a null
\* output context throws a TypeError and the handler ends.
OnMessageResumed(s) ==
    /\ awaiting[s] # <<>>
    /\ awaiting' = [awaiting EXCEPT ![s] = Tail(awaiting[s])]
    /\ IF outputAudioContextRef = NoRef
       THEN UNCHANGED <<scheduled, nextStartTime>>
       ELSE /\ nextStartTime' = [nextStartTime EXCEPT ![s] =
                   CursorAfter(s, Resumed(s).duration)]
            /\ scheduled' = [scheduled EXCEPT ![s] = Append(scheduled[s],
                   [start |-> StartTime(s),
                    duration |-> Resumed(s).duration,
                    mimeType |-> Resumed(s).mimeType,
                    at |-> Resumed(s).at,
                    ctx |-> outputAudioContextRef,
                    entryCursor |-> Resumed(s).entryCursor,
                    cursorBefore |-> nextStartTime[s],
                    cursorAfter |-> nextStartTime'[s],
                    clockRead |-> Resumed(s).clockRead,
                    clockNow |-> currentTime[outputAudioContextRef]])]
    /\ UNCHANGED <<compVars, refVars, pc, currentInputTranscription,
                   currentOutputTranscription, sessionPromise, thenQueue, envVars,
                   releases, sent, captured, inbox, emitted, lastStart, callLog,
                   sentWhile, historyVars>>

\* The clock of output context c advances while the context runs.
TickFrames == OutputSampleRate \div 2

ClockAdvances(c) ==
    /\ pc[c] # "idle"
    /\ OutputContextState(c) = "running"
    /\ currentTime' = [currentTime EXCEPT ![c] = currentTime[c] + TickFrames]
    /\ UNCHANGED <<compVars, refVars, closureVars, chan, nodeCtx, connected, obsVars,
                   historyVars>>

\* ------------------------------------------------- services/historyService
\* readHistoryStore (lines 12-20): the parsed store, {} when nothing is stored.
ReadHistoryStore == historyStore

\* writeHistoryStore (lines 22-28): setItem may throw (quota), which is
\* caught and leaves the stored value as it was.
WriteHistoryStore(store, ok) ==
    historyStore' = IF ok THEN store ELSE historyStore

\* store[imageName] || []
Lookup(store, imageName) ==
    IF imageName \in DOMAIN store THEN store[imageName] ELSE <<>>

\* store[imageName] = list
Put(store, imageName, list) ==
    [m \in DOMAIN store \cup {imageName} |->
        IF m = imageName THEN list ELSE store[m]]

\* delete store[imageName]
Remove(store, imageName) == [m \in DOMAIN store \ {imageName} |-> store[m]]

\* Array.prototype.sort with (a, b) => b.id - a.id: a stable sort by id,
\* largest first.
RECURSIVE InsertDesc(_, _)
InsertDesc(e, sorted) ==
    IF sorted = <<>> THEN <<e>>
    ELSE IF Head(sorted).id >= e.id
         THEN <<Head(sorted)>> \o InsertDesc(e, Tail(sorted))
         ELSE <<e>> \o sorted

RECURSIVE SortDesc(_)
SortDesc(list) ==
    IF list = <<>> THEN <<>>
    ELSE InsertDesc(list[Len(list)], SortDesc(SubSeq(list, 1, Len(list) - 1)))

\* getHistoryForImage (lines 30-34).
getHistoryForImage(imageName) == SortDesc(Lookup(ReadHistoryStore, imageName))

GetHistoryForImage(imageName) ==
    /\ returned' = getHistoryForImage(imageName)
    /\ lastOp' = [op |-> "get", name |-> imageName]
    /\ UNCHANGED <<historyStore, sessionVars>>

\* addHistoryEntry (lines 36-43).
AddHistoryEntry(imageName, entry, ok) ==
    /\ LET store == ReadHistoryStore
           updatedHistory == <<entry>> \o Lookup(store, imageName)
       IN WriteHistoryStore(Put(store, imageName, updatedHistory), ok)
    /\ lastOp' = [op |-> "add", name |-> imageName]
    /\ UNCHANGED <<returned, sessionVars>>

\* A delete that stores the filtered list even when it is empty.
DeleteKeepsEmptyList(imageName, entryId, ok) ==
    /\ LET store == ReadHistoryStore
           Kept(e) == e.id # entryId
       IN IF imageName \notin DOMAIN store
          THEN UNCHANGED historyStore
          ELSE WriteHistoryStore(
                   Put(store, imageName, SelectSeq(store[imageName], Kept)), ok)
    /\ lastOp' = [op |-> "delete", name |-> imageName]
    /\ UNCHANGED <<returned, sessionVars>>

\* deleteHistoryEntry (lines 45-59).
DeleteHistoryEntry(imageName, entryId, ok) ==
    /\ LET store == ReadHistoryStore
           Kept(e) == e.id # entryId
           updatedHistory == SelectSeq(Lookup(store, imageName), Kept)
       IN IF imageName \notin DOMAIN store
          THEN UNCHANGED historyStore
          ELSE IF Len(updatedHistory) > 0
               THEN WriteHistoryStore(Put(store, imageName, updatedHistory), ok)
               ELSE WriteHistoryStore(Remove(store, imageName), ok)
    /\ lastOp' = [op |-> "delete", name |-> imageName]
    /\ UNCHANGED <<returned, sessionVars>>

\* clearHistoryForImage (lines 61-67).
ClearHistoryForImage(imageName, ok) ==
    /\ LET store == ReadHistoryStore
       IN IF imageName \in DOMAIN store
          THEN WriteHistoryStore(Remove(store, imageName), ok)
          ELSE UNCHANGED historyStore
    /\ lastOp' = [op |-> "clear", name |-> imageName]
    /\ UNCHANGED <<returned, sessionVars>>

\* ---------------------------------------------------------------- inputs
NoText == <<>>
NoAudio == <<>>
PcmMime == "audio/pcm;rate=24000"
Chunk(mime, bytes) == <<[mimeType |-> mime, data |-> Encode(bytes)]>>
Msg(i, o, tc, a) ==
    [inputTranscription |-> i, outputTranscription |-> o, turnComplete |-> tc, audio |-> a]

\* 1000 ms and 500 ms of 16-bit mono PCM at 24000 Hz.
Bytes1000ms == OutputSampleRate * BytesPerElement
Bytes500ms == OutputSampleRate

InvalidBase64 == <<[mimeType |-> PcmMime, data |-> [valid |-> FALSE, chars |-> 4, padding |-> 0]]>>

\* ------------------------------------------------- bounded environment
AudioBlock(p, max) == captured[p] < max /\ OnAudioProcess(p)
Deliver(s, m, max) == Len(inbox[s]) < max /\ OnMessage(s, m)
Tick(c) == currentTime[c] < MaxTicks * TickFrames /\ ClockAdvances(c)

\* The session lifecycle: up to MaxStarts invocations of start, every stop
\* trigger, and the capture callback.
Next ==
    \/ \E s \in Starts : ClickStart(s)
    \/ \E s \in Starts : StartWhileActive(s)
    \/ \E s \in Starts : GetUserMediaResolved(s)
    \/ \E s \in Starts : GetUserMediaRejected(s)
    \/ ClickStop
    \/ \E s \in Starts : OnOpen(s)
    \/ \E s \in Starts : ConnectResolved(s)
    \/ \E s \in Starts : ConnectRejected(s)
    \/ \E s \in Starts : OnError(s)
    \/ \E s \in Starts : OnClose(s)
    \/ \E p \in Starts : AudioBlock(p, MaxBlocks)

Spec == Init /\ [][Next]_vars

\* One session from start to teardown, with inbound audio.
AudioMessages ==
    { Msg(NoText, NoText, FALSE, Chunk(PcmMime, Bytes1000ms)),
      Msg(NoText, NoText, FALSE, Chunk(PcmMime, Bytes500ms)),
      Msg(NoText, NoText, FALSE, Chunk("audio/ogg", Bytes500ms)),
      Msg(NoText, NoText, FALSE, InvalidBase64) }

NextPlayback ==
    \/ \E s \in {1} : ClickStart(s)
    \/ \E s \in {1} : GetUserMediaResolved(s)
    \/ \E s \in {1} : OnOpen(s)
    \/ \E s \in {1} : ConnectResolved(s)
    \/ ClickStop
    \/ \E s \in {1} : OnError(s)
    \/ \E s \in {1} : OnClose(s)
    \/ \E s \in {1}, m \in AudioMessages : Deliver(s, m, PlaybackMsgs)
    \/ \E s \in {1} : OnMessageResumed(s)
    \/ \E c \in {1} : Tick(c)

SpecPlayback == Init /\ [][NextPlayback]_vars

\* One session from start to teardown, with transcript deltas and turns.
UserDeltas == { <<"H", "e", "l">>, <<"l", "o">> }
ModelDeltas == { <<"H", "i">> }
Optional(S) == {NoText} \cup { <<x>> : x \in S }

TranscriptMessages ==
    { Msg(i, o, tc, NoAudio) :
        i \in Optional(UserDeltas), o \in Optional(ModelDeltas), tc \in BOOLEAN }

NextTranscript ==
    \/ \E s \in {1} : ClickStart(s)
    \/ \E s \in {1} : GetUserMediaResolved(s)
    \/ \E s \in {1} : OnOpen(s)
    \/ \E s \in {1} : ConnectResolved(s)
    \/ ClickStop
    \/ \E s \in {1} : OnError(s)
    \/ \E s \in {1} : OnClose(s)
    \/ \E s \in {1}, m \in TranscriptMessages : Deliver(s, m, TranscriptMsgs)

SpecTranscript == Init /\ [][NextTranscript]_vars

\* One session with audio in both directions: captured blocks going out while
\* audio chunks of two lengths come in, one of them in a message that also
\* carries both transcript deltas and turnComplete.
DuplexMessages ==
    { Msg(NoText, NoText, FALSE, Chunk(PcmMime, Bytes1000ms)),
      Msg(NoText, NoText, FALSE, Chunk(PcmMime, Bytes500ms)),
      Msg(<<<<"l", "o">>>>, <<<<"H", "i">>>>, TRUE, Chunk(PcmMime, Bytes500ms)) }

NextDuplex ==
    \/ \E s \in {1} : ClickStart(s)
    \/ \E s \in {1} : GetUserMediaResolved(s)
    \/ \E s \in {1} : OnOpen(s)
    \/ \E s \in {1} : ConnectResolved(s)
    \/ ClickStop
    \/ \E s \in {1} : OnClose(s)
    \/ \E p \in {1} : AudioBlock(p, DuplexBlocks)
    \/ \E s \in {1}, m \in DuplexMessages : Deliver(s, m, DuplexMsgs)
    \/ \E s \in {1} : OnMessageResumed(s)

SpecDuplex == Init /\ [][NextDuplex]_vars

\* Up to MaxStarts sessions one after the other, with transcript messages
\* arriving on whichever channels are open.
SessionMessages ==
    { Msg(<<<<"l", "o">>>>, NoText, FALSE, NoAudio),
      Msg(NoText, <<<<"H", "i">>>>, TRUE, NoAudio) }

NextSessions ==
    \/ \E s \in Starts : ClickStart(s)
    \/ \E s \in Starts : GetUserMediaResolved(s)
    \/ \E s \in Starts : OnOpen(s)
    \/ \E s \in Starts : ConnectResolved(s)
    \/ ClickStop
    \/ \E s \in Starts : OnClose(s)
    \/ \E s \in Starts, m \in SessionMessages : Deliver(s, m, SessionMsgs)

SpecSessions == Init /\ [][NextSessions]_vars

\* The history service called with any image name and entry id, the list of
\* one image kept to MaxEntries entries.
ImageNames == {"a.png", "b.png"}
HistoryEntries == {[id |-> i] : i \in 1..MaxId}

NextHistory ==
    \/ \E n \in ImageNames : GetHistoryForImage(n)
    \/ \E n \in ImageNames, e \in HistoryEntries, ok \in BOOLEAN :
          /\ Len(Lookup(historyStore, n)) < MaxEntries
          /\ AddHistoryEntry(n, e, ok)
    \/ \E n \in ImageNames, i \in 1..MaxId, ok \in BOOLEAN :
          DeleteHistoryEntry(n, i, ok)
    \/ \E n \in ImageNames, ok \in BOOLEAN : ClearHistoryForImage(n, ok)

SpecHistory == Init /\ [][NextHistory]_vars

\* One session from start to teardown, with captured audio blocks going out
\* while turns come in.
CaptureMessages == { Msg(NoText, <<<<"H", "i">>>>, TRUE, NoAudio) }

NextCapture ==
    \/ \E s \in {1} : ClickStart(s)
    \/ \E s \in {1} : GetUserMediaResolved(s)
    \/ \E s \in {1} : GetUserMediaRejected(s)
    \/ \E s \in {1} : OnOpen(s)
    \/ \E s \in {1} : ConnectResolved(s)
    \/ \E s \in {1} : ConnectRejected(s)
    \/ ClickStop
    \/ \E s \in {1} : OnError(s)
    \/ \E s \in {1} : OnClose(s)
    \/ \E p \in {1} : AudioBlock(p, CaptureBlocks)
    \/ \E s \in {1}, m \in CaptureMessages : Deliver(s, m, CaptureMsgs)

SpecCapture == Init /\ [][NextCapture]_vars

\* ================================================================ claims
\* The resources invocation s has acquired, by the release call each needs.
Acquired(k, s) ==
    CASE k \in {"inputContext.close", "outputContext.close"} -> pc[s] # "idle"
      [] k = "track.stop" -> chan[s] # "none"
      [] k = "session.close" -> chan[s] \in {"open", "closing", "closed"}
      [] k \in {"processor.disconnect", "source.disconnect"} -> nodeCtx[s] # NoRef

\* C1: no release function is ever invoked twice on one resource, and once
\* teardown has run (isSessionActive is false again) every resource that a
\* session acquired has had its release function invoked exactly once.
C1_ReleasedExactlyOnce ==
    /\ \A k \in ReleaseKinds, s \in Starts : releases[k][s] <= 1
    /\ ~isSessionActive =>
          \A k \in ReleaseKinds, s \in Starts : Acquired(k, s) => releases[k][s] = 1

\* C2: once a stop trigger or a fatal error has ended the session
\* (isSessionActive is false), no channel is still connecting or open and no
\* device, graph or channel handle is held in a ref.
C2_StopEndsClosed ==
    ~isSessionActive =>
        /\ \A s \in Starts : chan[s] \notin {"connecting", "open"}
        /\ sessionRef = NoRef
        /\ streamRef = NoRef
        /\ scriptProcessorRef = NoRef
        /\ sourceRef = NoRef
        /\ inputAudioContextRef = NoRef
        /\ outputAudioContextRef = NoRef

\* C10: at most one session is open at a time.
C10_AtMostOneOpen == Cardinality({s \in Starts : chan[s] = "open"}) <= 1

\* C3: the playback cursor nextStartTime of a session never decreases.
C3_CursorNonDecreasing ==
    [][\A s \in Starts : nextStartTime'[s] >= nextStartTime[s]]_vars

\* Two chunks scheduled, the first behind a clock that had advanced, the
\* second by a handler that entered before the first one resumed.
C3_Witness ==
    \E s \in Starts :
        /\ Len(scheduled[s]) >= 2
        /\ scheduled[s][1].start > 0
        /\ scheduled[s][2].entryCursor < scheduled[s][2].start

\* C4: once the session is available, the number of sendRealtimeInput calls
\* equals the number of audio blocks delivered, and every frame carries
\* 2 x BufferSize bytes of PCM.
C4_OneFramePerBlock ==
    \A s \in Starts :
        /\ \A i \in 1..Len(sent[s]) :
              Decode(sent[s][i].data) = BytesPerElement * BufferSize
        /\ sessionPromise[s] = "resolved" => Len(sent[s]) = captured[s]

\* 3 blocks of 4096 samples: 3 sends of 8192 bytes on the open channel.
C4_Witness ==
    /\ chan[1] = "open"
    /\ captured[1] = 3
    /\ Len(sent[1]) = 3
    /\ \A i \in 1..3 : Decode(sent[1][i].data) = 8192

\* The last TurnComplete of session s before message k (0 when there is none).
PrevTurn(s, k) ==
    LET before == {j \in 1..(k - 1) : j <= Len(inbox[s]) /\ inbox[s][j].turnComplete}
    IN IF before = {} THEN 0 ELSE CHOOSE j \in before : \A i \in before : i <= j

\* The texts of the user (model) deltas of messages lo..hi of s, in order.
RECURSIVE JoinInput(_, _, _)
JoinInput(s, lo, hi) ==
    IF lo > hi THEN <<>>
    ELSE TextOf(inbox[s][lo].inputTranscription) \o JoinInput(s, lo + 1, hi)

RECURSIVE JoinOutput(_, _, _)
JoinOutput(s, lo, hi) ==
    IF lo > hi THEN <<>>
    ELSE TextOf(inbox[s][lo].outputTranscription) \o JoinOutput(s, lo + 1, hi)

\* C5: every emitted TurnRecord holds, per role, the concatenation in arrival
\* order of the deltas received since the previous TurnComplete, and each
\* accumulator holds the concatenation of its own role's deltas since then.
C5_TurnIsConcatenation ==
    /\ Len(transcriptions) = Len(emitted)
    /\ \A i \in 1..Len(emitted) :
          LET e == emitted[i] IN
          /\ transcriptions[i].user =
                 JoinInput(e.session, PrevTurn(e.session, e.at) + 1, e.at)
          /\ transcriptions[i].model =
                 JoinOutput(e.session, PrevTurn(e.session, e.at) + 1, e.at)
    /\ \A s \in Starts :
          LET n == Len(inbox[s]) IN
          /\ currentInputTranscription[s] = JoinInput(s, PrevTurn(s, n + 1) + 1, n)
          /\ currentOutputTranscription[s] = JoinOutput(s, PrevTurn(s, n + 1) + 1, n)

\* User deltas "Hel", "lo", then TurnComplete: {user: "Hello", model: ""}.
C5_Witness ==
    /\ Len(inbox[1]) = 3
    /\ inbox[1][1] = Msg(<<<<"H", "e", "l">>>>, NoText, FALSE, NoAudio)
    /\ inbox[1][2] = Msg(<<<<"l", "o">>>>, NoText, FALSE, NoAudio)
    /\ inbox[1][3] = Msg(NoText, NoText, TRUE, NoAudio)
    /\ transcriptions = <<[user |-> <<"H", "e", "l", "l", "o">>, model |-> <<>>]>>

NoDeltaSince(s, lo, hi) ==
    \A j \in lo..hi :
        inbox[s][j].inputTranscription = <<>> /\ inbox[s][j].outputTranscription = <<>>

\* C6: a TurnComplete that arrives with no delta since the previous
\* TurnComplete (or since the start) emits the record {user: "", model: ""}.
C6_EmptyTurn ==
    \A s \in Starts : \A k \in 1..Len(inbox[s]) :
        (inbox[s][k].turnComplete /\ NoDeltaSince(s, PrevTurn(s, k) + 1, k)) =>
            \E i \in 1..Len(emitted) :
                /\ i <= Len(transcriptions)
                /\ emitted[i].session = s
                /\ emitted[i].at = k
                /\ transcriptions[i] = [user |-> <<>>, model |-> <<>>]

\* A turn with text, immediately followed by a bare TurnComplete.
C6_Witness ==
    /\ Len(inbox[1]) >= 2
    /\ inbox[1][1] = Msg(<<<<"l", "o">>>>, <<<<"H", "i">>>>, TRUE, NoAudio)
    /\ inbox[1][2] = Msg(NoText, NoText, TRUE, NoAudio)
    /\ Len(transcriptions) = 2
    /\ transcriptions[2] = [user |-> <<>>, model |-> <<>>]

\* C7: no schedule call is made for a chunk whose mime descriptor is not
\* the PCM descriptor, so such a chunk never advances the cursor.
C7_UnrecognizedMimeSkipped ==
    \A s \in Starts : \A i \in 1..Len(scheduled[s]) :
        scheduled[s][i].mimeType = PcmMime

\* C8: a chunk starts at the maximum of the cursor and the output clock its
\* handler read, the cursor then equals that start plus the duration, and
\* while the clock has not passed the cursor the next chunk starts exactly
\* where the previous one ends.
C8_ScheduledAtMax ==
    \A s \in Starts : \A i \in 1..Len(scheduled[s]) :
        LET r == scheduled[s][i] IN
        /\ r.start = Max(r.cursorBefore, r.clockRead)
        /\ r.cursorAfter = r.start + r.duration
        /\ (i > 1 /\ r.clockNow <= scheduled[s][i - 1].cursorAfter) =>
               r.start = scheduled[s][i - 1].start + scheduled[s][i - 1].duration

\* A 1000 ms chunk at t0 = 0.5 s, then a 500 ms chunk at t0 + 1.0 s.
C8_Witness ==
    /\ Len(scheduled[1]) = 2
    /\ scheduled[1][1].duration = OutputSampleRate
    /\ scheduled[1][2].duration = OutputSampleRate \div 2
    /\ scheduled[1][1].start = TickFrames
    /\ scheduled[1][2].start = TickFrames + OutputSampleRate

\* C9: of any two chunks scheduled in one session, the later one starts at
\* or after the end of the earlier one.
C9_NoOverlap ==
    \A s \in Starts : \A i, j \in 1..Len(scheduled[s]) :
        i < j => scheduled[s][j].start >= scheduled[s][i].start + scheduled[s][i].duration

\* Two chunks whose handlers were suspended at the await together: the
\* second one entered with the cursor still before the end of the first.
C9_Witness ==
    \E s \in Starts :
        /\ Len(scheduled[s]) = 2
        /\ scheduled[s][1].duration > 0
        /\ scheduled[s][2].entryCursor < scheduled[s][1].start + scheduled[s][1].duration
        /\ scheduled[s][2].start = scheduled[s][1].start + scheduled[s][1].duration
\* Position of call c in the log of the last handler that tore down.
InLog(c) == \E i \in 1..Len(callLog) : callLog[i] = c

Pos(c) == CHOOSE i \in 1..Len(callLog) : callLog[i] = c

Precedes(a, b) == (InLog(a) /\ InLog(b)) => Pos(a) < Pos(b)

C11_Order ==
    << "session.close", "sessionRef = null", "track.stop", "processor.disconnect",
       "source.disconnect", "inputContext.close", "outputContext.close",
       "setIsSessionActive(false)" >>

C12_InactiveHoldsNothing ==
    ~isSessionActive =>
        <<sessionRef, streamRef, scriptProcessorRef, sourceRef,
          inputAudioContextRef, outputAudioContextRef>>
            = <<NoRef, NoRef, NoRef, NoRef, NoRef, NoRef>>

\* C13: a frame is sent only while the channel of its session is open, and
\* the processor of a session delivers blocks only while that channel is open.
C13_SendOnlyWhileOpen ==
    \A s \in Starts :
        /\ sentWhile[s] \subseteq {"open"}
        /\ (connected[s] /\ InputContextState(nodeCtx[s]) = "running")
              => chan[s] = "open"

\* Frames went out on a channel that has since been torn down.
C13_Witness ==
    \E s \in Starts :
        /\ Len(sent[s]) >= 2
        /\ sentWhile[s] = {"open"}
        /\ chan[s] \in {"closing", "closed"}
        /\ ~isSessionActive

\* C14: when an error handler reports an error, every teardown step it runs
\* has been made before its setError call, the clearing of isSessionActive
\* included.
C14_TeardownBeforeSetError ==
    InLog("setError") =>
        /\ InLog("setIsSessionActive(false)")
        /\ \A i \in 1..Len(callLog) :
              callLog[i] # "setError" => i < Pos("setError")

\* Start s has returned without ever calling connect.
MicRefused(s) == pc[s] = "returned" /\ sessionPromise[s] = "none"

C15_Aborted(s) ==
    /\ chan'[s] = "none"
    /\ releases'["inputContext.close"][s] = 1
    /\ releases'["outputContext.close"][s] = 1

\* C15: when getUserMedia rejects, the start is aborted: the step that
\* handles the rejection sets the error and leaves isSessionActive false,
\* both contexts of that start are closed, no channel is opened for it, and
\* the start is never resumed or retried afterwards.
C15_MicFailureAbortsStart ==
    [][\A s \in Starts :
          /\ (pc[s] = "getUserMedia" /\ MicRefused(s)') =>
                /\ error' = "Failed to start conversation"
                /\ ~isSessionActive'
                /\ C15_Aborted(s)
          /\ MicRefused(s) => (MicRefused(s)' /\ C15_Aborted(s))]_vars

\* The rejection reached a start that was still active: the catch block
\* itself closed both contexts.
C15_Witness ==
    /\ MicRefused(1)
    /\ error = "Failed to start conversation"
    /\ callLog = <<"setError", "inputContext.close", "outputContext.close",
                   "setIsSessionActive(false)">>
    /\ ~isSessionActive

\* C16: the step in which the connect promise rejects surfaces an error and
\* leaves the session inactive with the stream and both contexts released.
C16_ConnectFailureEndsSession ==
    [][\A s \in Starts :
          (sessionPromise[s] = "pending" /\ sessionPromise'[s] = "rejected") =>
              /\ error' # "null"
              /\ ~isSessionActive'
              /\ streamRef' = NoRef
              /\ inputAudioContextRef' = NoRef
              /\ outputAudioContextRef' = NoRef]_vars

\* C17: when the channel of an active session whose handle is stored raises
\* an error, the handler runs every step of stopSession, so that each
\* resource of the session is released once and isSessionActive is false,
\* and sets the error to the session-error text for the event's message.
C17_RuntimeErrorTearsDown ==
    [][\A s \in Starts :
          ( /\ isSessionActive
            /\ chan[s] = "open"
            /\ sessionRef = s
            /\ chan'[s] = "closing"
            /\ error' # error ) =>
              /\ callLog' = <<"setError">> \o C11_Order
              /\ \E e \in ErrorEvents : error' = SessionErrorText(e)
              /\ ~isSessionActive'
              /\ \A k \in ReleaseKinds : releases'[k][s] = 1]_vars

\* An error with a message ended an established session.
C17_Witness ==
    /\ callLog = <<"setError">> \o C11_Order
    /\ error = SessionErrorText("socket failure")
    /\ chan[1] = "closing"
    /\ Len(sent[1]) >= 1
    /\ ~isSessionActive

\* The message that the current step takes into the inbox of session s.
Arrived(s) == inbox'[s][Len(inbox'[s])]

\* C18: a message whose audio chunk fails to decode is skipped: the step
\* that handles it schedules nothing, leaves nextStartTime of its session at
\* the value it had before, and leaves the channel open.
C18_DecodeFailureLeavesCursor ==
    [][\A s \in Starts :
          ( /\ Len(inbox'[s]) = Len(inbox[s]) + 1
            /\ HasAudio(Arrived(s))
            /\ DecodeFails(Arrived(s)) ) =>
              /\ nextStartTime'[s] = nextStartTime[s]
              /\ awaiting'[s] = awaiting[s]
              /\ scheduled' = scheduled
              /\ chan'[s] = "open"]_vars

\* The frames sent so far, over all sessions.
SentFrames == UNION {{sent[s][i] : i \in 1..Len(sent[s])} : s \in Starts}

\* C19: a sample of +1.0 is encoded as 32767, a sample of -1.0 as -32768,
\* and of two samples the larger never gets the smaller encoded value.
C19_ClampedMonotonic ==
    \A f \in SentFrames :
        /\ f.sample = 65536 => f.pcm = 32767
        /\ f.sample = -65536 => f.pcm = -32768
        /\ \A g \in SentFrames : f.sample <= g.sample => f.pcm <= g.pcm

TurnCompletes(s) == {k \in 1..Len(inbox[s]) : inbox[s][k].turnComplete}

EmittedFor(s) == {i \in 1..Len(emitted) : emitted[i].session = s}

\* Total length of the user (model) texts of the first n emitted records of s.
RECURSIVE EmittedUserLen(_, _)
EmittedUserLen(s, n) ==
    IF n = 0 THEN 0
    ELSE EmittedUserLen(s, n - 1)
           + (IF emitted[n].session = s THEN Len(emitted[n].record.user) ELSE 0)

RECURSIVE EmittedModelLen(_, _)
EmittedModelLen(s, n) ==
    IF n = 0 THEN 0
    ELSE EmittedModelLen(s, n - 1)
           + (IF emitted[n].session = s THEN Len(emitted[n].record.model) ELSE 0)

\* C20: per session, the number of emitted TurnRecords equals the number of
\* TurnComplete messages received, each from its own TurnComplete; right
\* after a TurnComplete both accumulators are empty; and the emitted texts
\* together with the accumulators hold every delta character exactly once.
C20_OneRecordPerTurnComplete ==
    \A s \in Starts :
        LET n == Len(inbox[s]) IN
        /\ Cardinality(EmittedFor(s)) = Cardinality(TurnCompletes(s))
        /\ {emitted[i].at : i \in EmittedFor(s)} = TurnCompletes(s)
        /\ (n > 0 /\ inbox[s][n].turnComplete) =>
              /\ currentInputTranscription[s] = <<>>
              /\ currentOutputTranscription[s] = <<>>
        /\ EmittedUserLen(s, Len(emitted)) + Len(currentInputTranscription[s])
              = Len(JoinInput(s, 1, n))
        /\ EmittedModelLen(s, Len(emitted)) + Len(currentOutputTranscription[s])
              = Len(JoinOutput(s, 1, n))

\* Two completed turns, the second of which carries a delta of its own.
C20_Witness ==
    /\ Len(inbox[1]) = 3
    /\ inbox[1][1] = Msg(<<<<"H", "e", "l">>>>, NoText, FALSE, NoAudio)
    /\ inbox[1][2] = Msg(<<<<"l", "o">>>>, <<<<"H", "i">>>>, TRUE, NoAudio)
    /\ inbox[1][3] = Msg(<<<<"l", "o">>>>, NoText, TRUE, NoAudio)
    /\ transcriptions =
          << [user |-> <<"H", "e", "l", "l", "o">>, model |-> <<"H", "i">>],
             [user |-> <<"l", "o">>, model |-> <<>>] >>
    /\ currentInputTranscription[1] = <<>>

\* The steps a channel takes through its life: created by connect, opened,
\* closing after close() or an error, closed; a connect that fails or an
\* error while connecting leave the path before the channel opens.
C21_Allowed ==
    { <<"none", "connecting">>, <<"connecting", "open">>, <<"open", "closing">>,
      <<"closing", "closed">>, <<"connecting", "closing">>,
      <<"connecting", "failed">>, <<"open", "closed">> }

\* C21: a session moves only along Idle, Opening, Open, Closing, Closed:
\* its channel changes state only along that path, and once teardown has
\* cleared isSessionActive the session neither starts connecting nor opens.
C21_LifecyclePath ==
    [][\A s \in Starts :
          chan'[s] # chan[s] =>
              /\ <<chan[s], chan'[s]>> \in C21_Allowed
              /\ chan'[s] \in {"connecting", "open"} => isSessionActive']_vars

C23_OrderPreserved ==
    \A s \in Starts :
        /\ \A i, j \in 1..Len(sent[s]) :
              i < j => sent[s][i].block < sent[s][j].block
        /\ \A i, j \in 1..Len(awaiting[s]) :
              i < j => awaiting[s][i].at < awaiting[s][j].at
        /\ \A i \in 1..Len(scheduled[s]), j \in 1..Len(awaiting[s]) :
              scheduled[s][i].at < awaiting[s][j].at
        /\ \A i, j \in 1..Len(scheduled[s]) :
              i < j => /\ scheduled[s][i].at < scheduled[s][j].at
                       /\ scheduled[s][i].start < scheduled[s][j].start

\* Two chunks were scheduled although the handler of the second was entered
\* while the first was still suspended, and two frames have gone out.
C23_Witness ==
    /\ Len(scheduled[1]) = 2
    /\ scheduled[1][2].entryCursor = 0
    /\ scheduled[1][2].start > 0
    /\ Len(sent[1]) = 2
    /\ sent[1][2].block = 2

\* C24: a processor has delivered blocks, and frames exist, only for a
\* channel that has opened; and when a channel opens, its onopen finds the
\* input context and the stream still in their refs.
C24_ArmedOnlyByOpen ==
    [][\A s \in Starts :
          /\ (captured'[s] > 0 \/ sent'[s] # <<>> \/ connected'[s])
                => chan'[s] \in {"open", "closing", "closed"}
          /\ (chan[s] = "connecting" /\ chan'[s] = "open")
                => (inputAudioContextRef # NoRef /\ streamRef # NoRef)]_vars

\* The session started last.
Latest == CHOOSE s \in Starts \cup {NoRef} :
             /\ s # NoRef => pc[s] # "idle"
             /\ \A u \in Starts : pc[u] # "idle" => u <= s

\* The sessions whose records are in the list of finalized turns.
Visible ==
    { emitted[Len(emitted) - Len(transcriptions) + k].session :
          k \in 1..Len(transcriptions) }

\* C25: the step that starts a session leaves its cursor at 0, both of its
\* accumulators empty and the list of finalized turns empty, and the list
\* never holds a record of a session other than the one started last.
C25_FreshPerSession ==
    [][/\ \A s \in Starts :
             (pc[s] = "idle" /\ pc'[s] # "idle") =>
                 /\ nextStartTime'[s] = 0
                 /\ currentInputTranscription'[s] = <<>>
                 /\ currentOutputTranscription'[s] = <<>>
                 /\ transcriptions' = <<>>
       /\ Visible' \subseteq {Latest'}]_vars

\* C26: a step that takes in no message and starts no session, a teardown in
\* particular, emits no TurnRecord and leaves the list of finalized turns as
\* it is, whatever text the accumulators hold.
C26_TeardownEmitsNothing ==
    [][((\A s \in Starts : inbox'[s] = inbox[s] /\ (pc[s] = "idle" => pc'[s] = "idle"))
          \/ (isSessionActive /\ ~isSessionActive')) =>
            (transcriptions' = transcriptions /\ emitted' = emitted)]_vars

\* The session was stopped with a turn in progress, after one finalized turn.
C26_Witness ==
    /\ ~isSessionActive
    /\ chan[1] = "closing"
    /\ Len(inbox[1]) = 2
    /\ inbox[1][1].turnComplete
    /\ ~inbox[1][2].turnComplete
    /\ currentInputTranscription[1] # <<>>
    /\ Len(transcriptions) = 1

\* Whether sequence a ends with sequence b.
EndsWith(a, b) ==
    /\ Len(b) <= Len(a)
    /\ SubSeq(a, Len(a) - Len(b) + 1, Len(a)) = b

\* C27: the record of a turn ends with the deltas that came in the same
\* message as its turnComplete, which therefore are not in the accumulators
\* afterwards; and the audio of a message is decoded and scheduled only
\* after the record of that message has been emitted.
C27_FieldsInOrder ==
    \A s \in Starts :
        /\ \A i \in EmittedFor(s) :
              LET m == inbox[s][emitted[i].at] IN
              /\ EndsWith(emitted[i].record.user, TextOf(m.inputTranscription))
              /\ EndsWith(emitted[i].record.model, TextOf(m.outputTranscription))
        /\ (Len(inbox[s]) > 0 /\ inbox[s][Len(inbox[s])].turnComplete) =>
              /\ currentInputTranscription[s] = <<>>
              /\ currentOutputTranscription[s] = <<>>
        /\ \A k \in TurnCompletes(s) :
              (\/ \E j \in 1..Len(awaiting[s]) : awaiting[s][j].at = k
               \/ \E j \in 1..Len(scheduled[s]) : scheduled[s][j].at = k)
                 => \E i \in EmittedFor(s) : emitted[i].at = k

\* A message with both deltas, turnComplete and audio followed an audio
\* chunk; its record is out and its audio is scheduled.
C27_Witness ==
    /\ Len(inbox[1]) = 2
    /\ inbox[1][2] =
          Msg(<<<<"l", "o">>>>, <<<<"H", "i">>>>, TRUE, Chunk(PcmMime, Bytes500ms))
    /\ transcriptions = <<[user |-> <<"l", "o">>, model |-> <<"H", "i">>]>>
    /\ Len(scheduled[1]) = 2
    /\ scheduled[1][2].at = 2

\* C28: a message handled while the output context ref is cleared schedules
\* nothing, suspends nothing and leaves nextStartTime alone; a handler that
\* resumes from its await while the ref is cleared schedules nothing; and
\* every buffer is scheduled on the context the ref holds, which is running.
C28_NoScheduleOnClearedContext ==
    [][\A s \in Starts :
          /\ (Len(inbox'[s]) > Len(inbox[s]) /\ outputAudioContextRef = NoRef) =>
                /\ nextStartTime'[s] = nextStartTime[s]
                /\ awaiting'[s] = awaiting[s]
                /\ scheduled'[s] = scheduled[s]
          /\ (Len(awaiting'[s]) < Len(awaiting[s]) /\ outputAudioContextRef = NoRef) =>
                /\ nextStartTime'[s] = nextStartTime[s]
                /\ scheduled'[s] = scheduled[s]
          /\ scheduled'[s] # scheduled[s] =>
                /\ outputAudioContextRef # NoRef
                /\ OutputContextState(outputAudioContextRef) = "running"
                /\ scheduled'[s][Len(scheduled'[s])].ctx = outputAudioContextRef]_vars

\* A chunk was taken in while the context ran (the cursor moved to the
\* clock), the session was torn down, and nothing has been scheduled for
\* the two chunks that arrived.
C28_Witness ==
    /\ ~isSessionActive
    /\ outputAudioContextRef = NoRef
    /\ Len(inbox[1]) = 2
    /\ \A k \in 1..2 : inbox[1][k] = Msg(NoText, NoText, FALSE, Chunk(PcmMime, Bytes1000ms))
    /\ nextStartTime[1] > 0
    /\ awaiting[1] = <<>>
    /\ scheduled[1] = <<>>

\* The block numbers of a sequence of frames.
Blocks(fs) == [i \in 1..Len(fs) |-> fs[i].block]

\* C29: while the connect promise is pending every captured block is held,
\* in capture order, by a handler deferred on the promise and none is sent;
\* once the promise has resolved the frames sent are exactly the captured
\* blocks 1, 2, ... in that order, the deferred ones first.
C29_DeferredNotDropped ==
    \A s \in Starts :
        /\ sessionPromise[s] = "pending" =>
              /\ sent[s] = <<>>
              /\ Blocks(QueuedFrames(thenQueue[s])) = [i \in 1..captured[s] |-> i]
        /\ sessionPromise[s] = "resolved" =>
              /\ thenQueue[s] = <<>>
              /\ Blocks(sent[s]) = [i \in 1..captured[s] |-> i]

\* Two blocks were captured before the promise resolved and one after it.
C29_Witness ==
    /\ sessionPromise[1] = "resolved"
    /\ Blocks(sent[1]) = <<1, 2, 3>>
    /\ sent[1][1].deferred /\ sent[1][2].deferred /\ ~sent[1][3].deferred
    /\ sent[1][1].sample # sent[1][2].sample

\* How many entries of list have id i.
CountId(list, i) == Cardinality({k \in 1..Len(list) : list[k].id = i})

\* C30: after every call of the history service no image name is mapped to
\* an empty list; a delete or a clear for one image name leaves the entries
\* of every other image name as they were; and getHistoryForImage returns
\* the stored entries of its image, each once, ordered by id descending.
C30_HistoryStoreKept ==
    [][/\ \A n \in DOMAIN historyStore' : historyStore'[n] # <<>>
       /\ lastOp'.op \in {"delete", "clear"} =>
             \A m \in ImageNames \ {lastOp'.name} :
                 /\ (m \in DOMAIN historyStore') = (m \in DOMAIN historyStore)
                 /\ Lookup(historyStore', m) = Lookup(historyStore, m)
       /\ lastOp'.op = "get" =>
             LET stored == Lookup(historyStore', lastOp'.name) IN
             /\ Len(returned') = Len(stored)
             /\ \A i \in 1..MaxId : CountId(returned', i) = CountId(stored, i)
             /\ \A j, k \in 1..Len(returned') :
                   j < k => returned'[j].id >= returned'[k].id]_vars

\* The last entry of one image was deleted, which removed its key, while
\* another image keeps two entries that were read back newest id first.
C30_Witness ==
    /\ lastOp = [op |-> "delete", name |-> "a.png"]
    /\ DOMAIN historyStore = {"b.png"}
    /\ historyStore["b.png"] = <<[id |-> 1], [id |-> 2]>>
    /\ returned = <<[id |-> 2], [id |-> 1]>>

====
